---- MODULE Spec2Model ----
(***************************************************************************)
(* Model of the render-queue service of SimpleGaussianSplatServer: the D1  *)
(* (SQLite) tables jobs, posts, likes and comments, and the HTTP handlers  *)
(* that read and write them.  Every SQL statement is one atomic step; a    *)
(* handler that issues several statements is a sequence of steps, and the  *)
(* steps of concurrent requests interleave (the handlers open no           *)
(* transaction).  D1 enforces the declared PRIMARY KEY and REFERENCES      *)
(* constraints.                                                            *)
(***************************************************************************)
EXTENDS Integers, Sequences, FiniteSets, Bags, TLC

\* ---------------------------------------------------------------- bounds
MaxJobs == 2
MaxTime == 1
MaxCalls == 2
MaxUsers == 2
MaxComments == 3
MaxLikeCount == 2
MaxViews == 2
MaxReplies == 3

JobIds == 1..MaxJobs
Users == 1..MaxUsers
Slots == 1..MaxCalls
CommentIds == 1..MaxComments

\* SQL NULL for an id column (user_id, parent_id)
NoId == 0

\* who submits jobs: nobody signed in (optionalAuth), or user 1
Submitters == {NoId, 1}

\* ---------------------------------------------------------------- types
JobStatus == {"queued", "claimed", "processing", "completed", "failed"}

OutputFormats == {"splat", "ply"}

\* SQL NULL for result_key
NoKey == [job |-> NoId, ext |-> "none"]

\* `jobs/${jobId}/output${ext}`
ResultKey(jobId, output_format) ==
  [job |-> jobId, ext |-> IF output_format = "ply" THEN ".ply" ELSE ".splat"]

\* the names of the pipeline stages, in order
StageNames == <<"frame_extraction", "pose_estimation", "training", "conversion">>

\* the stages a job is created with
StageTemplate == [k \in DOMAIN StageNames |-> [name |-> StageNames[k], status |-> "pending"]]

\* body.stages of a status request: absent, or a list of stages
NoStages == [given |-> FALSE, list |-> <<>>]

\* text.length > 1000 is refused
MaxBodyLen == 1000

\* a comment body: lead whitespace characters, then text characters from the
\* first to the last that is no whitespace, then trail whitespace characters
BodyLength(b) == b.lead + b.text + b.trail

\* a trim that returns its argument
TrimNothing(b) == b

\* String.prototype.trim
Trim(b) == [lead |-> 0, text |-> b.text, trail |-> 0]

\* a body that passes the checks
OkBody == [lead |-> 0, text |-> 1, trail |-> 0]

\* no body stored in a local variable yet
NoBody == [lead |-> 0, text |-> 0, trail |-> 0]

VARIABLES
  now,           \* the store's clock, strftime('now')
  jobs,          \* table jobs, rows in rowid order
  posts,         \* table posts, rows in rowid order
  likes,         \* table likes, a bag of rows (no statement reads their order)
  comments,      \* table comments, rows in rowid order
  nextComment,   \* number of comment ids stored so far (ids are fresh, never reused)
  calls,         \* the requests being handled, one per slot
  reply,         \* the response sent last
  timesClaimed,  \* history: how often claim() returned each job
  finalizes,     \* history: how many setJobResultKey calls ended per job, up to 2
  viewed         \* history: how many incrementViewCount calls ran per post

vars ==
  <<now, jobs, posts, likes, comments, nextComment, calls, reply, timesClaimed, finalizes,
    viewed>>

\* ---------------------------------------------------------------- requests
\* a slot that has not handled a request yet; id is the job, post or comment
\* the request names, the fields after parent are the handler's local variables
\* (n is deletedCount or total, rows the ids of the rows a listing selected,
\* liked its likedPostIds and replies the ids of the replies under each row),
\* and removed is history: the rows its DELETEs removed
IdleCall ==
  [op |-> "none", pc |-> "idle", id |-> NoId, user |-> NoId, parent |-> NoId,
   resolved |-> NoId, comment |-> NoId, post |-> NoId, top |-> FALSE,
   key |-> NoKey, fmt |-> "none", n |-> 0, removed |-> 0, body |-> NoBody,
   limit |-> 0, offset |-> 0, rows |-> <<>>, liked |-> {}, replies |-> <<>>]

\* a slot whose request has been answered
DoneCall == [IdleCall EXCEPT !.pc = "done"]

\* a request is taken by the first slot that has handled none yet, and when
\* there is no such slot by the first slot that has answered its request
Free(c) ==
  \/ /\ calls[c].pc = "idle"
     /\ \A d \in Slots : d < c => calls[d].pc # "idle"
  \/ /\ calls[c].pc = "done"
     /\ \A d \in Slots : calls[d].pc # "idle" /\ (d < c => calls[d].pc # "done")

Quiescent == \A c \in Slots : calls[c].pc \in {"idle", "done"}

\* no response sent yet
NoReply == [op |-> "none", id |-> NoId, http |-> 0, ret |-> 0]

\* c.json(body, http): the handler of slot c ends with status http and value ret
Respond(c, op, id, http, ret) ==
  /\ calls' = [calls EXCEPT ![c] = DoneCall]
  /\ reply' = [op |-> op, id |-> id, http |-> http, ret |-> ret]

\* ---------------------------------------------------------------- table helpers
JobIdx(id) == {i \in DOMAIN jobs : jobs[i].id = id}

PostIdx(id) == {i \in DOMAIN posts : posts[i].id = id}

\* db.prepare("SELECT * FROM jobs WHERE id = ?").first()
getJob(id) == IF JobIdx(id) = {} THEN {} ELSE {jobs[CHOOSE i \in JobIdx(id) : TRUE]}

\* ---------------------------------------------------------------- JobStore
\* an insertJob that leaves stages to the column default '[]'
insertJobDefaultStages(id, config, userId) ==
  jobs' = Append(jobs, [id |-> id, status |-> "queued", created_at |-> now,
                        output_format |-> config.output_format, result_key |-> NoKey,
                        user_id |-> userId, stages |-> <<>>,
                        max_frames |-> config.max_frames,
                        training_iterations |-> config.training_iterations,
                        resolution |-> config.resolution])

\* INSERT INTO jobs (...): status defaults to 'queued', created_at to now
\* (the columns no handler modelled here reads back are left out: video_key,
\* error, updated_at)
insertJob(id, config, userId) ==
  jobs' = Append(jobs, [id |-> id, status |-> "queued", created_at |-> now,
                        output_format |-> config.output_format, result_key |-> NoKey,
                        user_id |-> userId, stages |-> StageTemplate,
                        max_frames |-> config.max_frames,
                        training_iterations |-> config.training_iterations,
                        resolution |-> config.resolution])

\* the config of a submission that names no parameter
DefaultConfig ==
  [output_format |-> "splat", max_frames |-> 40, training_iterations |-> 7000,
   resolution |-> 768]

\* POST /api/v1/jobs with no parameter but output_format: a fresh id, one
\* INSERT (the response, which names the new job, is left out)
CreateJob(fmt, u) ==
  /\ Len(jobs) < MaxJobs
  /\ insertJob(Len(jobs) + 1, [DefaultConfig EXCEPT !.output_format = fmt], u)
  /\ UNCHANGED <<now, posts, likes, comments, nextComment, calls, reply, timesClaimed, finalizes, viewed>>

\* a form field: absent (or empty), a text that starts with no digit, or a
\* text that parseInt reads as the integer n
Absent == [kind |-> "absent", n |-> 0]

NotNumeric == [kind |-> "text", n |-> 0]

Numeric(n) == [kind |-> "int", n |-> n]

\* parseInt((formData.get(name) as string) || default, 10)
ParseInt(field, default) ==
  IF field.kind = "absent" THEN [nan |-> FALSE, n |-> default]
  ELSE IF field.kind = "text" THEN [nan |-> TRUE, n |-> 0]
  ELSE [nan |-> FALSE, n |-> field.n]

\* Math.max(256, Math.min(1920, Math.floor(rawResolution / 64) * 64))
ClampResolution(rawResolution) ==
  LET m == (rawResolution \div 64) * 64
      capped == IF m < 1920 THEN m ELSE 1920
  IN  IF capped > 256 THEN capped ELSE 256

\* POST /api/v1/jobs with a video and the form's parameters, by user u (NoId:
\* no token). A field that is not a number parses to NaN, which the store
\* takes as NULL: the INSERT fails on NOT NULL and the handler throws
SubmitJob(c, form, u) ==
  /\ Free(c)
  /\ Len(jobs) < MaxJobs
  /\ LET maxFrames == ParseInt(form.max_frames, 40)
         trainingIterations == ParseInt(form.training_iterations, 7000)
         rawResolution == ParseInt(form.resolution, 768)
         outputFormat == IF form.output_format = "" THEN "splat" ELSE form.output_format
     IN  IF maxFrames.nan \/ trainingIterations.nan \/ rawResolution.nan
           THEN Respond(c, "submit", NoId, 500, 0) /\ UNCHANGED jobs
           ELSE /\ insertJob(Len(jobs) + 1,
                             [output_format |-> outputFormat, max_frames |-> maxFrames.n,
                              training_iterations |-> trainingIterations.n,
                              resolution |-> ClampResolution(rawResolution.n)], u)
                /\ Respond(c, "submit", Len(jobs) + 1, 201, 1)
  /\ UNCHANGED <<now, posts, likes, comments, nextComment, timesClaimed, finalizes, viewed>>

\* time passes (only insertJob reads the clock)
Tick ==
  /\ now < MaxTime
  /\ Len(jobs) < MaxJobs
  /\ now' = now + 1
  /\ UNCHANGED <<jobs, posts, likes, comments, nextComment, calls, reply, timesClaimed, finalizes, viewed>>

\* a selection that forgets WHERE status = 'queued'
OldestAny ==
  {i \in DOMAIN jobs : \A k \in DOMAIN jobs : jobs[i].created_at <= jobs[k].created_at}

\* SELECT id FROM jobs WHERE status = 'queued' ORDER BY created_at ASC LIMIT 1
\* (rows of equal created_at: any of them)
OldestQueued ==
  {i \in DOMAIN jobs :
     /\ jobs[i].status = "queued"
     /\ \A k \in DOMAIN jobs : jobs[k].status = "queued" => jobs[i].created_at <= jobs[k].created_at}

\* claimOldestJob that returns the row and leaves its status
claimOldestJobNoUpdate(c, i) ==
  /\ jobs' = jobs
  /\ timesClaimed' = [timesClaimed EXCEPT ![jobs[i].id] = @ + 1]
  /\ Respond(c, "claim", jobs[i].id, 200, jobs[i].id)

\* UPDATE jobs SET status = 'claimed' WHERE id = (SELECT ...) RETURNING *
claimOldestJob(c, i) ==
  /\ jobs' = [jobs EXCEPT ![i].status = "claimed"]
  /\ timesClaimed' = [timesClaimed EXCEPT ![jobs[i].id] = @ + 1]
  /\ Respond(c, "claim", jobs[i].id, 200, jobs[i].id)

\* POST /api/v1/worker/claim
WorkerClaim(c) ==
  /\ Free(c)
  /\ IF OldestQueued = {}
       THEN /\ Respond(c, "claim", NoId, 200, NoId)
            /\ UNCHANGED <<jobs, timesClaimed>>
       ELSE \E i \in OldestQueued : claimOldestJob(c, i)
  /\ UNCHANGED <<now, posts, likes, comments, nextComment, finalizes, viewed>>

\* a status list that lets a worker put a job back in the queue
validStatusesWithQueued == {"queued", "processing", "completed", "failed"}

validStatuses == {"processing", "completed", "failed"}

\* an UPDATE that lost its WHERE clause
updateJobStatusAll(id, status, stages) ==
  jobs' = [i \in DOMAIN jobs |->
             [jobs[i] EXCEPT !.status = status,
                             !.stages = IF stages.given THEN stages.list ELSE @]]

\* UPDATE jobs SET status = ?[, stages = ?] WHERE id = ? (the error it may
\* also set is a column left out here)
updateJobStatus(id, status, stages) ==
  jobs' = [i \in DOMAIN jobs |->
             IF jobs[i].id = id
               THEN [jobs[i] EXCEPT !.status = status,
                                    !.stages = IF stages.given THEN stages.list ELSE @]
               ELSE jobs[i]]

\* a status route without the check of body.status
WorkerStatusUnvalidated(c, id, status) ==
  /\ Free(c)
  /\ updateJobStatus(id, status, NoStages)
  /\ IF JobIdx(id) # {} THEN Respond(c, "status", id, 200, 1)
                        ELSE Respond(c, "status", id, 404, 0)
  /\ UNCHANGED <<now, posts, likes, comments, nextComment, timesClaimed, finalizes, viewed>>

\* PUT /api/v1/worker/jobs/:id/status with body {status, stages?}
WorkerStatusWith(c, id, status, stages) ==
  /\ Free(c)
  /\ IF status \notin validStatuses
       THEN Respond(c, "status", id, 400, 0) /\ UNCHANGED jobs
       ELSE /\ updateJobStatus(id, status, stages)
            /\ IF JobIdx(id) # {} THEN Respond(c, "status", id, 200, 1)
                                  ELSE Respond(c, "status", id, 404, 0)
  /\ UNCHANGED <<now, posts, likes, comments, nextComment, timesClaimed, finalizes, viewed>>

\* PUT /api/v1/worker/jobs/:id/status with body {status}
WorkerStatus(c, id, status) == WorkerStatusWith(c, id, status, NoStages)

\* PUT /api/v1/worker/jobs/:id/result: getJob, then the upload to the blob store
ResultRequest(c, id) ==
  /\ Free(c)
  /\ IF getJob(id) = {}
       THEN Respond(c, "result", id, 404, 0)
       ELSE LET job == CHOOSE j \in getJob(id) : TRUE
            IN /\ calls' = [calls EXCEPT ![c] =
                    [IdleCall EXCEPT !.op = "result", !.pc = "update", !.id = id,
                                     !.key = ResultKey(id, job.output_format)]]
               /\ UNCHANGED reply
  /\ UNCHANGED <<now, jobs, posts, likes, comments, nextComment, timesClaimed, finalizes, viewed>>

\* setJobResultKey returns (or throws) for job id
Finalized(id) ==
  finalizes' = [finalizes EXCEPT ![id] = IF @ < 2 THEN @ + 1 ELSE @]

\* setJobResultKey, first statement:
\* UPDATE jobs SET result_key = ?, status = 'completed' WHERE id = ?
ResultUpdate(c) ==
  /\ calls[c].op = "result" /\ calls[c].pc = "update"
  /\ jobs' = [i \in DOMAIN jobs |->
                IF jobs[i].id = calls[c].id
                  THEN [jobs[i] EXCEPT !.result_key = calls[c].key, !.status = "completed"]
                  ELSE jobs[i]]
  /\ IF JobIdx(calls[c].id) # {}
       THEN calls' = [calls EXCEPT ![c].pc = "select"] /\ UNCHANGED <<finalizes, reply>>
       ELSE Respond(c, "result", calls[c].id, 200, 0) /\ Finalized(calls[c].id)
  /\ UNCHANGED <<now, posts, likes, comments, nextComment, timesClaimed, viewed>>

\* a second statement that does not read the job's user_id
ResultSelectNoOwner(c) ==
  /\ calls[c].op = "result" /\ calls[c].pc = "select"
  /\ IF getJob(calls[c].id) = {}
       THEN Respond(c, "result", calls[c].id, 200, 1) /\ Finalized(calls[c].id)
       ELSE LET job == CHOOSE j \in getJob(calls[c].id) : TRUE
            IN /\ calls' = [calls EXCEPT ![c].pc = "insert", ![c].user = NoId,
                                         ![c].fmt = job.output_format]
               /\ UNCHANGED <<finalizes, reply>>
  /\ UNCHANGED <<now, jobs, posts, likes, comments, nextComment, timesClaimed, viewed>>

\* setJobResultKey, second statement:
\* SELECT id, user_id, output_format FROM jobs WHERE id = ?
ResultSelect(c) ==
  /\ calls[c].op = "result" /\ calls[c].pc = "select"
  /\ IF getJob(calls[c].id) = {}
       THEN Respond(c, "result", calls[c].id, 200, 1) /\ Finalized(calls[c].id)
       ELSE LET job == CHOOSE j \in getJob(calls[c].id) : TRUE
            IN /\ calls' = [calls EXCEPT ![c].pc = "insert", ![c].user = job.user_id,
                                         ![c].fmt = job.output_format]
               /\ UNCHANGED <<finalizes, reply>>
  /\ UNCHANGED <<now, jobs, posts, likes, comments, nextComment, timesClaimed, viewed>>

\* a posts table without its primary key
PostKeyUnchecked(id) == TRUE

\* posts.id is the PRIMARY KEY
PostKeyFree(id) == PostIdx(id) = {}

\* setJobResultKey, third statement:
\* INSERT INTO posts (id, user_id, result_key, output_format) VALUES (?, ?, ?, ?)
ResultInsert(c) ==
  /\ calls[c].op = "result" /\ calls[c].pc = "insert"
  /\ IF PostKeyFree(calls[c].id)
       THEN /\ posts' = Append(posts,
                 [id |-> calls[c].id, user_id |-> calls[c].user,
                  result_key |-> calls[c].key, output_format |-> calls[c].fmt,
                  view_count |-> 0, like_count |-> 0, comment_count |-> 0,
                  created_at |-> now])
            /\ Respond(c, "result", calls[c].id, 200, 1)
       ELSE /\ UNCHANGED posts
            /\ Respond(c, "result", calls[c].id, 500, 0)
  /\ Finalized(calls[c].id)
  /\ UNCHANGED <<now, jobs, likes, comments, nextComment, timesClaimed, viewed>>

\* ---------------------------------------------------------------- worker key
\* c.env.WORKER_API_KEY, and a key that is not it
WorkerApiKey == "key"

WrongKey == "wrong"

\* the Authorization header of a request: none, or a key after "Bearer ",
\* which authHeader.replace(/^Bearer\s+/i, "") takes off
NoHeader == [present |-> FALSE, token |-> ""]

Headers == {NoHeader} \cup [present : {TRUE}, token : {WorkerApiKey, WrongKey}]

\* a workerAuth that lets any Authorization header pass
workerAuthAnyHeader(h) == IF ~h.present THEN 401 ELSE 0

\* workerAuth: the status it answers with, or 0 when it calls next()
workerAuth(h) ==
  IF ~h.present THEN 401
  ELSE IF h.token # WorkerApiKey THEN 403
  ELSE 0

\* worker.use("/*", workerAuth): a request to a worker route with header h
\* reaches the route's handler when workerAuth calls next()
Authorized(c, h, handler) ==
  IF workerAuth(h) = 0
    THEN handler
    ELSE /\ Free(c)
         /\ Respond(c, "auth", NoId, workerAuth(h), 0)
         /\ UNCHANGED <<now, jobs, posts, likes, comments, nextComment, timesClaimed, finalizes,
                        viewed>>

\* GET /api/v1/worker/jobs/:id/video (every job has its video stored)
WorkerVideo(c, id) ==
  /\ Free(c)
  /\ Respond(c, "video", id, IF getJob(id) = {} THEN 404 ELSE 200, 0)
  /\ UNCHANGED <<now, jobs, posts, likes, comments, nextComment, timesClaimed, finalizes, viewed>>

\* ---------------------------------------------------------------- CounterLedger
\* a floor that lets negative numbers through
Max0Unfloored(n) == n

Max0(n) == IF n > 0 THEN n ELSE 0

\* an increment that writes back the count a new post starts with, plus one
IncViewCountStale(id) ==
  posts' = [i \in DOMAIN posts |->
              IF posts[i].id = id THEN [posts[i] EXCEPT !.view_count = 1] ELSE posts[i]]

\* UPDATE posts SET view_count = view_count + 1 WHERE id = ?
IncViewCount(id) ==
  posts' = [i \in DOMAIN posts |->
              IF posts[i].id = id THEN [posts[i] EXCEPT !.view_count = @ + 1] ELSE posts[i]]

\* POST /api/v1/feed/:id/view: the response is sent at once, incrementViewCount
\* runs in waitUntil
View(p) ==
  /\ p \in DOMAIN viewed => viewed[p] < MaxViews
  /\ IncViewCount(p)
  /\ viewed' = [j \in DOMAIN viewed |-> IF j = p THEN viewed[j] + 1 ELSE viewed[j]]
  /\ UNCHANGED <<now, jobs, likes, comments, nextComment, calls, reply, timesClaimed, finalizes>>

\* a view route that looks the post up before it answers
ViewRequestChecked(c, p) ==
  /\ Free(c)
  /\ p \in DOMAIN viewed => viewed[p] < MaxViews
  /\ calls' = [calls EXCEPT ![c] = [IdleCall EXCEPT !.op = "view", !.pc = "bg", !.id = p]]
  /\ reply' = [op |-> "view", id |-> p,
               http |-> IF PostIdx(p) = {} THEN 404 ELSE 200, ret |-> 1]
  /\ UNCHANGED <<now, jobs, posts, likes, comments, nextComment, timesClaimed, finalizes, viewed>>

\* POST /api/v1/feed/:id/view, as the caller sees it: incrementViewCount is
\* handed to waitUntil and {ok: true} is returned without awaiting it
ViewRequest(c, p) ==
  /\ Free(c)
  /\ p \in DOMAIN viewed => viewed[p] < MaxViews
  /\ calls' = [calls EXCEPT ![c] = [IdleCall EXCEPT !.op = "view", !.pc = "bg", !.id = p]]
  /\ reply' = [op |-> "view", id |-> p, http |-> 200, ret |-> 1]
  /\ UNCHANGED <<now, jobs, posts, likes, comments, nextComment, timesClaimed, finalizes, viewed>>

\* the promise given to waitUntil runs its UPDATE (which matches no row when
\* the post id is unknown)
ViewIncrement(c) ==
  /\ calls[c].op = "view" /\ calls[c].pc = "bg"
  /\ IncViewCount(calls[c].id)
  /\ viewed' = [j \in DOMAIN viewed |->
                  IF j = calls[c].id THEN viewed[j] + 1 ELSE viewed[j]]
  /\ calls' = [calls EXCEPT ![c] = DoneCall]
  /\ UNCHANGED <<now, jobs, likes, comments, nextComment, reply, timesClaimed, finalizes>>

\* the promise given to waitUntil rejects: the store refused the UPDATE, which
\* then changed no row; nothing awaits the promise
ViewStoreError(c) ==
  /\ calls[c].op = "view" /\ calls[c].pc = "bg"
  /\ calls' = [calls EXCEPT ![c] = DoneCall]
  /\ UNCHANGED <<now, jobs, posts, likes, comments, nextComment, reply, timesClaimed, finalizes, viewed>>

\* an increment that counts a like twice
IncLikeCountTwice(id) ==
  posts' = [i \in DOMAIN posts |->
              IF posts[i].id = id THEN [posts[i] EXCEPT !.like_count = @ + 2] ELSE posts[i]]

\* UPDATE posts SET like_count = like_count + 1 WHERE id = ?
IncLikeCount(id) ==
  posts' = [i \in DOMAIN posts |->
              IF posts[i].id = id THEN [posts[i] EXCEPT !.like_count = @ + 1] ELSE posts[i]]

\* a decrement without MAX(0, ...)
DecLikeCountNoFloor(id) ==
  posts' = [i \in DOMAIN posts |->
              IF posts[i].id = id THEN [posts[i] EXCEPT !.like_count = @ - 1] ELSE posts[i]]

\* UPDATE posts SET like_count = MAX(0, like_count - 1) WHERE id = ?
DecLikeCount(id) ==
  posts' = [i \in DOMAIN posts |->
              IF posts[i].id = id THEN [posts[i] EXCEPT !.like_count = Max0(@ - 1)]
                                  ELSE posts[i]]

\* the rows WHERE user_id = ? AND post_id = ?
LikeIdx(u, p) == {r \in BagToSet(likes) : r.user_id = u /\ r.post_id = p}

\* a likes table without its primary key
LikeKeyUnchecked(u, p) == TRUE

\* likes has PRIMARY KEY (user_id, job_id)
LikeKeyFree(u, p) == \A r \in BagToSet(likes) : ~(r.user_id = u /\ r.job_id = p)

\* DELETE FROM likes WHERE user_id = ? AND post_id = ?
DeleteLikes(u, p) ==
  likes' = [r \in BagToSet(likes) \ LikeIdx(u, p) |-> likes[r]]

\* likes.job_id REFERENCES jobs(id), likes.post_id REFERENCES posts(id)
LikeRefsOk(p) == JobIdx(p) # {} /\ PostIdx(p) # {}

\* POST /api/v1/feed/:id/like, insertLike, first statement:
\* INSERT INTO likes (user_id, job_id, post_id) VALUES (?, ?, ?)
LikeRequest(c, u, p) ==
  /\ Free(c)
  /\ IF ~LikeKeyFree(u, p)
       THEN \* UNIQUE constraint: caught, already liked
            Respond(c, "like", p, 200, 0) /\ UNCHANGED likes
       ELSE IF ~LikeRefsOk(p)
       THEN \* FOREIGN KEY constraint: rethrown
            Respond(c, "like", p, 500, 0) /\ UNCHANGED likes
       ELSE /\ likes' = likes (+) SetToBag({[user_id |-> u, job_id |-> p, post_id |-> p]})
            /\ calls' = [calls EXCEPT ![c] =
                 [IdleCall EXCEPT !.op = "like", !.pc = "inc", !.id = p, !.user = u]]
            /\ UNCHANGED reply
  /\ UNCHANGED <<now, jobs, posts, comments, nextComment, timesClaimed, finalizes, viewed>>

\* insertLike, second statement
LikeInc(c) ==
  /\ calls[c].op = "like" /\ calls[c].pc = "inc"
  /\ IncLikeCount(calls[c].id)
  /\ Respond(c, "like", calls[c].id, 200, 1)
  /\ UNCHANGED <<now, jobs, likes, comments, nextComment, timesClaimed, finalizes, viewed>>

\* a removeLike that lowers the counter whether or not a row was deleted
UnlikeAlwaysDec(c, u, p) ==
  /\ Free(c)
  /\ DeleteLikes(u, p)
  /\ calls' = [calls EXCEPT ![c] =
       [IdleCall EXCEPT !.op = "unlike", !.pc = "dec", !.id = p, !.user = u]]
  /\ UNCHANGED reply
  /\ UNCHANGED <<now, jobs, posts, comments, nextComment, timesClaimed, finalizes, viewed>>

\* DELETE /api/v1/feed/:id/like, removeLike, first statement
UnlikeRequest(c, u, p) ==
  /\ Free(c)
  /\ DeleteLikes(u, p)
  /\ IF LikeIdx(u, p) # {}
       THEN /\ calls' = [calls EXCEPT ![c] =
                 [IdleCall EXCEPT !.op = "unlike", !.pc = "dec", !.id = p, !.user = u]]
            /\ UNCHANGED reply
       ELSE Respond(c, "unlike", p, 200, 0)
  /\ UNCHANGED <<now, jobs, posts, comments, nextComment, timesClaimed, finalizes, viewed>>

\* removeLike, second statement
UnlikeDec(c) ==
  /\ calls[c].op = "unlike" /\ calls[c].pc = "dec"
  /\ DecLikeCount(calls[c].id)
  /\ Respond(c, "unlike", calls[c].id, 200, 1)
  /\ UNCHANGED <<now, jobs, likes, comments, nextComment, timesClaimed, finalizes, viewed>>

\* ---------------------------------------------------------------- CommentThread
CommentIdx(id) == {i \in DOMAIN comments : comments[i].id = id}

\* UPDATE posts SET comment_count = comment_count + 1 WHERE id = ?
IncCommentCount(id) ==
  posts' = [i \in DOMAIN posts |->
              IF posts[i].id = id THEN [posts[i] EXCEPT !.comment_count = @ + 1] ELSE posts[i]]

\* UPDATE posts SET comment_count = MAX(0, comment_count - ?) WHERE id = ?
DecCommentCount(id, deletedCount) ==
  posts' = [i \in DOMAIN posts |->
              IF posts[i].id = id THEN [posts[i] EXCEPT !.comment_count = Max0(@ - deletedCount)]
                                  ELSE posts[i]]

\* an insertComment that stores the declared parent as given
ResolveParentAsGiven(parentId) == parentId

\* an insertComment that stores every comment as top-level
ResolveParentDropped(parentId) == NoId

\* SELECT id, parent_id FROM comments WHERE id = ?, and the flattening:
\* a parent that is itself a reply is replaced by its own parent
ResolveParent(parentId) ==
  IF \E i \in CommentIdx(parentId) : comments[i].parent_id # NoId
    THEN comments[CHOOSE i \in CommentIdx(parentId) : TRUE].parent_id
    ELSE parentId

\* a comments table whose parent_id references nothing
CommentRefsUnchecked(postId, parentId) == PostIdx(postId) # {}

\* comments.post_id REFERENCES posts(id), comments.parent_id REFERENCES comments(id)
CommentRefsOk(postId, parentId) ==
  /\ PostIdx(postId) # {}
  /\ parentId # NoId => CommentIdx(parentId) # {}

\* INSERT INTO comments (id, post_id, user_id, parent_id, body) VALUES (...)
\* with the id the route drew from crypto.randomUUID()
insertCommentRow(c, call) ==
  IF CommentRefsOk(call.id, call.resolved)
    THEN /\ comments' = Append(comments,
              [id |-> nextComment + 1, post_id |-> call.id, user_id |-> call.user,
               parent_id |-> call.resolved, body |-> call.body, created_at |-> now])
         /\ nextComment' = nextComment + 1
         /\ calls' = [calls EXCEPT ![c] =
              [call EXCEPT !.pc = "inc", !.comment = nextComment + 1]]
         /\ UNCHANGED reply
    ELSE \* FOREIGN KEY constraint: the handler throws
         /\ Respond(c, "comment", call.id, 500, 0)
         /\ UNCHANGED <<comments, nextComment>>

\* the comment requests that have not reached their INSERT yet
PendingInserts == {c \in Slots : calls[c].op = "comment" /\ calls[c].pc = "insert"}

\* POST /api/v1/feed/:id/comments: the checks of the trimmed body, then
\* insertComment up to its first statement that writes or waits
CommentCreate(c, u, p, parentId, body) ==
  /\ Free(c)
  /\ LET text == Trim(body)
         call == [IdleCall EXCEPT !.op = "comment", !.id = p, !.user = u,
                                  !.parent = parentId, !.body = text]
     IN IF BodyLength(text) = 0 \/ BodyLength(text) > MaxBodyLen
          THEN /\ Respond(c, "comment", p, 400, 0)
               /\ UNCHANGED <<comments, nextComment>>
          ELSE /\ nextComment + Cardinality(PendingInserts) < MaxComments
               /\ IF parentId # NoId
                    THEN /\ calls' = [calls EXCEPT ![c] =
                              [call EXCEPT !.pc = "insert",
                                           !.resolved = ResolveParent(parentId)]]
                         /\ UNCHANGED <<comments, nextComment, reply>>
                    ELSE insertCommentRow(c, call)
  /\ UNCHANGED <<now, jobs, posts, likes, timesClaimed, finalizes, viewed>>

\* POST /api/v1/feed/:id/comments with a body that passes the checks
CommentRequest(c, u, p, parentId) == CommentCreate(c, u, p, parentId, OkBody)

\* insertComment, the INSERT after the parent lookup
CommentInsert(c) ==
  /\ calls[c].op = "comment" /\ calls[c].pc = "insert"
  /\ insertCommentRow(c, calls[c])
  /\ UNCHANGED <<now, jobs, posts, likes, timesClaimed, finalizes, viewed>>

\* insertComment, the counter update, then the read of the author's display_name
CommentInc(c) ==
  /\ calls[c].op = "comment" /\ calls[c].pc = "inc"
  /\ IncCommentCount(calls[c].id)
  /\ Respond(c, "comment", calls[c].id, 201, calls[c].comment)
  /\ UNCHANGED <<now, jobs, likes, comments, nextComment, timesClaimed, finalizes, viewed>>

\* a deleteComment that does not compare comment.user_id with the requester
DeleteRequestAnyone(c, u, commentId) ==
  /\ Free(c)
  /\ IF CommentIdx(commentId) # {}
       THEN LET comment == comments[CHOOSE i \in CommentIdx(commentId) : TRUE]
            IN /\ calls' = [calls EXCEPT ![c] =
                    [IdleCall EXCEPT !.op = "delete", !.id = commentId, !.user = u,
                                     !.post = comment.post_id, !.n = 1,
                                     !.top = (comment.parent_id = NoId),
                                     !.pc = IF comment.parent_id = NoId THEN "replies" ELSE "self"]]
               /\ UNCHANGED reply
       ELSE Respond(c, "delete", commentId, 404, 0)
  /\ UNCHANGED <<now, jobs, posts, likes, comments, nextComment, timesClaimed, finalizes, viewed>>

\* a route that answers 403 for a comment of another user
DeleteRequestForbidden(c, u, commentId) ==
  /\ Free(c)
  /\ IF \E i \in CommentIdx(commentId) : comments[i].user_id = u
       THEN LET comment == comments[CHOOSE i \in CommentIdx(commentId) : TRUE]
            IN /\ calls' = [calls EXCEPT ![c] =
                    [IdleCall EXCEPT !.op = "delete", !.id = commentId, !.user = u,
                                     !.post = comment.post_id, !.n = 1,
                                     !.top = (comment.parent_id = NoId),
                                     !.pc = IF comment.parent_id = NoId THEN "replies" ELSE "self"]]
               /\ UNCHANGED reply
       ELSE IF CommentIdx(commentId) # {}
              THEN Respond(c, "delete", commentId, 403, 0)
              ELSE Respond(c, "delete", commentId, 404, 0)
  /\ UNCHANGED <<now, jobs, posts, likes, comments, nextComment, timesClaimed, finalizes, viewed>>

\* DELETE /api/v1/feed/:id/comments/:commentId, deleteComment, the ownership check:
\* SELECT id, post_id, user_id, parent_id FROM comments WHERE id = ?
DeleteRequest(c, u, commentId) ==
  /\ Free(c)
  /\ IF \E i \in CommentIdx(commentId) : comments[i].user_id = u
       THEN LET comment == comments[CHOOSE i \in CommentIdx(commentId) : TRUE]
            IN /\ calls' = [calls EXCEPT ![c] =
                    [IdleCall EXCEPT !.op = "delete", !.id = commentId, !.user = u,
                                     !.post = comment.post_id, !.n = 1,
                                     !.top = (comment.parent_id = NoId),
                                     !.pc = IF comment.parent_id = NoId THEN "replies" ELSE "self"]]
               /\ UNCHANGED reply
       ELSE Respond(c, "delete", commentId, 404, 0)
  /\ UNCHANGED <<now, jobs, posts, likes, comments, nextComment, timesClaimed, finalizes, viewed>>

\* the rows of comments left when the rows in gone are deleted
Without(gone) == SelectSeq(comments, LAMBDA r : r.id \notin gone)

\* comments.parent_id REFERENCES comments(id): no row left may name a deleted row
DeleteRefsOk(gone) ==
  \A i \in DOMAIN comments : comments[i].id \notin gone => comments[i].parent_id \notin gone

\* deleteComment, DELETE FROM comments WHERE parent_id = ?
DeleteReplies(c) ==
  /\ calls[c].op = "delete" /\ calls[c].pc = "replies"
  /\ LET gone == {comments[i].id : i \in {k \in DOMAIN comments : comments[k].parent_id = calls[c].id}}
     IN IF DeleteRefsOk(gone)
          THEN /\ comments' = Without(gone)
               /\ calls' = [calls EXCEPT ![c].pc = "self", ![c].n = @ + Cardinality(gone),
                                         ![c].removed = @ + Cardinality(gone)]
               /\ UNCHANGED reply
          ELSE Respond(c, "delete", calls[c].id, 500, 0) /\ UNCHANGED comments
  /\ UNCHANGED <<now, jobs, posts, likes, nextComment, timesClaimed, finalizes, viewed>>

\* deleteComment, DELETE FROM comments WHERE id = ?
DeleteSelf(c) ==
  /\ calls[c].op = "delete" /\ calls[c].pc = "self"
  /\ IF DeleteRefsOk({calls[c].id})
       THEN /\ comments' = Without({calls[c].id})
            /\ calls' = [calls EXCEPT ![c].pc = "dec",
                                      ![c].removed = @ + Cardinality(CommentIdx(calls[c].id))]
            /\ UNCHANGED reply
       ELSE Respond(c, "delete", calls[c].id, 500, 0) /\ UNCHANGED comments
  /\ UNCHANGED <<now, jobs, posts, likes, nextComment, timesClaimed, finalizes, viewed>>

\* deleteComment, the counter update
DeleteDec(c) ==
  /\ calls[c].op = "delete" /\ calls[c].pc = "dec"
  /\ DecCommentCount(calls[c].post, calls[c].n)
  /\ Respond(c, "delete", calls[c].id, 200, calls[c].n)
  /\ UNCHANGED <<now, jobs, likes, comments, nextComment, timesClaimed, finalizes, viewed>>

\* ---------------------------------------------------------------- FeedRanker
\* strftime('%s', t): the whole seconds of a time kept in milliseconds
Seconds(t) == t \div 1000

\* strftime('%s','now') - strftime('%s', p.created_at)
AgeSeconds(p) == Seconds(now) - Seconds(p.created_at)

\* an ordering by age alone
ScoreAtLeastByAge(p, q) == AgeSeconds(p) <= AgeSeconds(q)

\* the ORDER BY expression of p is at least that of q:
\*   p.view_count * 0.3 + p.like_count * 1.0 + 86400.0 / (age(p) + 3600)
\* compared without rounding: with d the difference of the popularity terms in
\* tenths, A = age(p) + 3600 and B = age(q) + 3600, it reads
\* d / 10 >= 86400 * (A - B) / (A * B), that is d * A * B / 100 >= 8640 * (A - B),
\* whose right side is an integer
ScoreAtLeast(p, q) ==
  LET d == 3 * (p.view_count - q.view_count) + 10 * (p.like_count - q.like_count)
      A == AgeSeconds(p) + 3600
      B == AgeSeconds(q) + 3600
  IN  (d * A * B) \div 100 >= 8640 * (A - B)

\* a listing without its ORDER BY: the rows in any order
FeedOrdersUnsorted ==
  {o \in [DOMAIN posts -> DOMAIN posts] : \A i, j \in DOMAIN posts : i # j => o[i] # o[j]}

\* the orders of the posts table that ORDER BY ... DESC can return: rows with
\* equal scores come in an order SQL leaves open
FeedOrders ==
  {o \in [DOMAIN posts -> DOMAIN posts] :
     /\ \A i, j \in DOMAIN posts : i # j => o[i] # o[j]
     /\ \A i, j \in DOMAIN posts : i < j => ScoreAtLeast(posts[o[i]], posts[o[j]])}

\* Math.min(parseInt(limit), 50)
FeedMaxLimit == 50

CapLimit(limit) == IF limit < FeedMaxLimit THEN limit ELSE FeedMaxLimit

\* LIMIT ? OFFSET ? of a list of rows
Page(rows, limit, offset) ==
  SubSeq(rows, offset + 1, IF offset + limit < Len(rows) THEN offset + limit ELSE Len(rows))

\* a listing that flags a post when anybody likes it
FeedLikedByAnyone(c) ==
  /\ calls[c].op = "feed" /\ calls[c].pc = "liked"
  /\ calls' = [calls EXCEPT ![c] =
       [@ EXCEPT !.pc = "done",
                 !.liked = {calls[c].rows[k] : k \in DOMAIN calls[c].rows}
                             \cap {r.post_id : r \in BagToSet(likes)}]]
  /\ reply' = [op |-> "feed", id |-> NoId, http |-> 200, ret |-> Len(calls[c].rows)]
  /\ UNCHANGED <<now, jobs, posts, likes, comments, nextComment, timesClaimed, finalizes, viewed>>

\* GET /api/v1/feed?limit=&offset= by user u (NoId: no token), getFeedItems;
\* an anonymous caller, or an empty page, gets its answer without a lookup of
\* likes (the total, read by getFeedCount beside it, is left out)
FeedRequest(c, u, limit, offset) ==
  /\ Free(c)
  /\ \E o \in FeedOrders :
       LET rows == Page([i \in DOMAIN posts |-> posts[o[i]].id], CapLimit(limit), offset)
           call == [IdleCall EXCEPT !.op = "feed", !.user = u, !.limit = limit,
                                    !.offset = offset, !.rows = rows]
       IN  IF u = NoId \/ rows = <<>>
             THEN /\ calls' = [calls EXCEPT ![c] = [call EXCEPT !.pc = "done"]]
                  /\ reply' = [op |-> "feed", id |-> NoId, http |-> 200, ret |-> Len(rows)]
             ELSE /\ calls' = [calls EXCEPT ![c] = [call EXCEPT !.pc = "liked"]]
                  /\ UNCHANGED reply
  /\ UNCHANGED <<now, jobs, posts, likes, comments, nextComment, timesClaimed, finalizes, viewed>>

\* getUserLikedPostIds: SELECT post_id FROM likes WHERE user_id = ? AND
\* post_id IN (the ids of the page), then the response with liked_by_me
FeedLiked(c) ==
  /\ calls[c].op = "feed" /\ calls[c].pc = "liked"
  /\ calls' = [calls EXCEPT ![c] =
       [@ EXCEPT !.pc = "done",
                 !.liked = {r.post_id : r \in {x \in BagToSet(likes) :
                               /\ x.user_id = calls[c].user
                               /\ \E k \in DOMAIN calls[c].rows : calls[c].rows[k] = x.post_id}}]]
  /\ reply' = [op |-> "feed", id |-> NoId, http |-> 200, ret |-> Len(calls[c].rows)]
  /\ UNCHANGED <<now, jobs, posts, likes, comments, nextComment, timesClaimed, finalizes, viewed>>

\* ---------------------------------------------------------------- comment listing
\* the rows of comments in the set S of positions, in an order ORDER BY
\* created_at ASC can return (rows with equal created_at come in any order),
\* as their ids
OldestFirst(S) ==
  {[k \in 1..Cardinality(S) |-> comments[o[k]].id] :
     o \in {o \in [1..Cardinality(S) -> S] :
              /\ \A i, j \in 1..Cardinality(S) : i # j => o[i] # o[j]
              /\ \A i, j \in 1..Cardinality(S) :
                   i < j => comments[o[i]].created_at <= comments[o[j]].created_at}}

\* a selection that forgets parent_id IS NULL
AnyLevelIdx(postId) == {i \in DOMAIN comments : comments[i].post_id = postId}

\* the rows WHERE c.post_id = ? AND c.parent_id IS NULL
TopLevelIdx(postId) ==
  {i \in DOMAIN comments : comments[i].post_id = postId /\ comments[i].parent_id = NoId}

\* the rows WHERE c.parent_id = ?
RepliesIdx(parentId) == {i \in DOMAIN comments : comments[i].parent_id = parentId}

\* GET /api/v1/feed/:id/comments?limit=&offset=, getComments
ListRequest(c, p, limit, offset) ==
  /\ Free(c)
  /\ \E all \in OldestFirst(TopLevelIdx(p)) :
       calls' = [calls EXCEPT ![c] =
         [IdleCall EXCEPT !.op = "list", !.pc = "count", !.id = p, !.limit = limit,
                          !.offset = offset, !.rows = Page(all, CapLimit(limit), offset)]]
  /\ UNCHANGED <<now, jobs, posts, likes, comments, nextComment, reply, timesClaimed, finalizes,
                 viewed>>

\* getTopLevelCommentCount, sent together with getComments
ListCount(c) ==
  /\ calls[c].op = "list" /\ calls[c].pc = "count"
  /\ calls' = [calls EXCEPT ![c] =
       [@ EXCEPT !.pc = "replies", !.n = Cardinality(TopLevelIdx(calls[c].id))]]
  /\ UNCHANGED <<now, jobs, posts, likes, comments, nextComment, reply, timesClaimed, finalizes,
                 viewed>>

\* getReplies for the ids of the page, its rows grouped by parent_id in the
\* order they came, then the response {comments, total, offset, limit}
ListReplies(c) ==
  /\ calls[c].op = "list" /\ calls[c].pc = "replies"
  /\ \E rs \in [DOMAIN calls[c].rows ->
                   UNION {OldestFirst(RepliesIdx(calls[c].rows[k])) : k \in DOMAIN calls[c].rows}] :
       /\ \A k \in DOMAIN calls[c].rows : rs[k] \in OldestFirst(RepliesIdx(calls[c].rows[k]))
       /\ calls' = [calls EXCEPT ![c] = [@ EXCEPT !.pc = "done", !.replies = rs]]
  /\ reply' = [op |-> "list", id |-> calls[c].id, http |-> 200, ret |-> calls[c].n]
  /\ UNCHANGED <<now, jobs, posts, likes, comments, nextComment, timesClaimed, finalizes, viewed>>

\* ---------------------------------------------------------------- specifications
Init ==
  /\ now = 0
  /\ jobs = <<>>
  /\ posts = <<>>
  /\ likes = EmptyBag
  /\ comments = <<>>
  /\ nextComment = 0
  /\ calls = [c \in Slots |-> IdleCall]
  /\ reply = NoReply
  /\ timesClaimed = [j \in JobIds |-> 0]
  /\ finalizes = [j \in JobIds |-> 0]
  /\ viewed = [j \in JobIds |-> 0]

\* the statuses a worker sends: the three the route accepts and one it does not
StatusArgs == {"queued"} \cup validStatuses

Next ==
  \/ \E fmt \in OutputFormats, u \in Submitters : CreateJob(fmt, u)
  \/ \E c \in Slots : WorkerClaim(c)
  \/ \E c \in Slots, id \in JobIds, s \in StatusArgs : WorkerStatus(c, id, s)
  \/ \E c \in Slots, id \in JobIds : ResultRequest(c, id)
  \/ \E c \in Slots : ResultUpdate(c)
  \/ \E c \in Slots : ResultSelect(c)
  \/ \E c \in Slots : ResultInsert(c)

Spec == Init /\ [][Next]_vars

\* ------------------------------------------------ progress reports
\* the template with its first stage running
FirstRunning == [StageTemplate EXCEPT ![1].status = "running"]

\* the lists a worker sends: the template, the template with progress, and
\* the running stage alone
StageLists == {StageTemplate, FirstRunning, SubSeq(FirstRunning, 1, 1)}

StageArgs == {NoStages} \cup {[given |-> TRUE, list |-> l] : l \in StageLists}

NextStages ==
  \/ \E fmt \in OutputFormats, u \in Submitters : CreateJob(fmt, u)
  \/ \E c \in Slots : WorkerClaim(c)
  \/ \E c \in Slots, id \in JobIds, s \in StatusArgs, st \in StageArgs :
       WorkerStatusWith(c, id, s, st)

\* submissions, claims and status requests that carry stages
SpecStages == Init /\ [][NextStages]_vars

\* ------------------------------------------------ submissions with parameters
\* a form that names no parameter
EmptyForm ==
  [output_format |-> "", max_frames |-> Absent, training_iterations |-> Absent,
   resolution |-> Absent]

\* the forms submitted: the empty one, and those that name one parameter, with
\* values at, inside and outside the documented ranges
Forms ==
  {EmptyForm}
    \cup {[EmptyForm EXCEPT !.output_format = f] : f \in OutputFormats \cup {"obj"}}
    \cup {[EmptyForm EXCEPT !.max_frames = v] :
            v \in {NotNumeric} \cup {Numeric(n) : n \in {7, 8, 80, 81}}}
    \cup {[EmptyForm EXCEPT !.training_iterations = v] :
            v \in {NotNumeric} \cup {Numeric(n) : n \in {999, 1000, 30000, 30001}}}
    \cup {[EmptyForm EXCEPT !.resolution = v] :
            v \in {NotNumeric} \cup {Numeric(n) : n \in {0, 256, 799, 800, 831, 832, 1920, 2000}}}

NextSubmit ==
  \/ \E c \in Slots, form \in Forms, u \in Submitters : SubmitJob(c, form, u)
  \/ \E c \in Slots : WorkerClaim(c)

\* submissions with parameters, and claims
SpecSubmit == Init /\ [][NextSubmit]_vars

\* ------------------------------------------------ worker requests with their key
\* the job the requests that name one are about
FirstJob == 1

NextWorker ==
  \/ \E fmt \in OutputFormats, u \in Submitters : CreateJob(fmt, u)
  \/ \E c \in Slots, h \in Headers : Authorized(c, h, WorkerClaim(c))
  \/ \E c \in Slots, h \in Headers : Authorized(c, h, WorkerVideo(c, FirstJob))
  \/ \E c \in Slots, h \in Headers : Authorized(c, h, WorkerStatus(c, FirstJob, "processing"))
  \/ \E c \in Slots, h \in Headers : Authorized(c, h, ResultRequest(c, FirstJob))
  \/ \E c \in Slots : ResultUpdate(c)
  \/ \E c \in Slots : ResultSelect(c)
  \/ \E c \in Slots : ResultInsert(c)

\* submissions, and requests to the four worker routes with any header, those
\* that name a job naming the first
SpecWorker == Init /\ [][NextWorker]_vars

\* ------------------------------------------------ the queue over time
NextQueue ==
  \/ Tick
  \/ \E fmt \in OutputFormats, u \in Submitters : CreateJob(fmt, u)
  \/ \E c \in Slots : WorkerClaim(c)

\* submissions and claims as the clock advances
SpecQueue == Init /\ [][NextQueue]_vars

\* ------------------------------------------------ N claim calls, M queued jobs
JobRows ==
  [id : JobIds, status : {"queued"}, created_at : 0..MaxTime,
   output_format : OutputFormats, result_key : {NoKey}, user_id : Submitters,
   stages : {StageTemplate}, max_frames : {40}, training_iterations : {7000},
   resolution : {768}]

\* the store after M <= MaxJobs submissions, none of them claimed yet
InitClaim ==
  /\ jobs \in UNION {[1..m -> JobRows] : m \in 0..MaxJobs}
  /\ now = IF jobs = <<>> THEN 0 ELSE jobs[Len(jobs)].created_at
  /\ \A i \in DOMAIN jobs : jobs[i].id = i
  /\ \A i, k \in DOMAIN jobs : i < k => jobs[i].created_at <= jobs[k].created_at
  /\ posts = <<>>
  /\ likes = EmptyBag
  /\ comments = <<>>
  /\ nextComment = 0
  /\ calls = [c \in Slots |-> IdleCall]
  /\ reply = NoReply
  /\ timesClaimed = [j \in JobIds |-> 0]
  /\ finalizes = [j \in JobIds |-> 0]
  /\ viewed = [j \in JobIds |-> 0]

\* every caller claims once
FirstClaim(c) == calls[c].pc = "idle" /\ WorkerClaim(c)

NextClaim == \E c \in Slots : FirstClaim(c)

SpecClaim == InitClaim /\ [][NextClaim]_vars

\* ------------------------------------------------ the feed: likes
\* a post id that names no post
UnknownPost == MaxJobs + 1

PostArgs == JobIds \cup {UnknownPost}

\* the store after MaxJobs anonymous submissions, each claimed, processed and
\* finalized once: every job is completed and has its post, with counters 0
InitFeed ==
  /\ now = 0
  /\ jobs = [i \in JobIds |->
       [id |-> i, status |-> "completed", created_at |-> 0, output_format |-> "splat",
        result_key |-> ResultKey(i, "splat"), user_id |-> NoId, stages |-> StageTemplate,
        max_frames |-> 40, training_iterations |-> 7000, resolution |-> 768]]
  /\ posts = [i \in JobIds |->
       [id |-> i, user_id |-> NoId, result_key |-> ResultKey(i, "splat"),
        output_format |-> "splat", view_count |-> 0, like_count |-> 0, comment_count |-> 0,
        created_at |-> 0]]
  /\ likes = EmptyBag
  /\ comments = <<>>
  /\ nextComment = 0
  /\ calls = [c \in Slots |-> IdleCall]
  /\ reply = NoReply
  /\ timesClaimed = [j \in JobIds |-> 1]
  /\ finalizes = [j \in JobIds |-> 1]
  /\ viewed = [j \in JobIds |-> 0]

InFlight(c) == calls[c].pc \notin {"idle", "done"}

\* no like_count has run away (a bound on the model, not on the service)
LikeCountsBounded == \A i \in DOMAIN posts : posts[i].like_count <= MaxLikeCount

\* user u has no request in flight
NotBusy(u) == \A d \in Slots : InFlight(d) => calls[d].user # u

NextLikes ==
  \/ \E c \in Slots, u \in Users, p \in PostArgs : LikeCountsBounded /\ LikeRequest(c, u, p)
  \/ \E c \in Slots, u \in Users, p \in PostArgs : UnlikeRequest(c, u, p)
  \/ \E c \in Slots : LikeInc(c)
  \/ \E c \in Slots : UnlikeDec(c)

\* any users, any overlap of their requests
SpecLikes == InitFeed /\ [][NextLikes]_vars

NextLikesDistinct ==
  \/ \E c \in Slots, u \in Users, p \in PostArgs : NotBusy(u) /\ LikeRequest(c, u, p)
  \/ \E c \in Slots, u \in Users, p \in PostArgs : NotBusy(u) /\ UnlikeRequest(c, u, p)
  \/ \E c \in Slots : LikeInc(c)
  \/ \E c \in Slots : UnlikeDec(c)

\* concurrent requests come from distinct users
SpecLikesDistinct == InitFeed /\ [][NextLikesDistinct]_vars

\* likes only, any users, any overlap
NextLikeOnly ==
  \/ \E c \in Slots, u \in Users, p \in PostArgs : LikeRequest(c, u, p)
  \/ \E c \in Slots : LikeInc(c)

SpecLikeOnly == InitFeed /\ [][NextLikeOnly]_vars

\* the post whose likes and comments run among the views
ViewedPost == 1

\* views of any post among likes, unlikes and top-level comments on one post
NextViews ==
  \/ \E p \in PostArgs : View(p)
  \/ \E c \in Slots, u \in Users : LikeCountsBounded /\ LikeRequest(c, u, ViewedPost)
  \/ \E c \in Slots, u \in Users : UnlikeRequest(c, u, ViewedPost)
  \/ \E c \in Slots : LikeInc(c)
  \/ \E c \in Slots : UnlikeDec(c)
  \/ \E c \in Slots, u \in Users : CommentRequest(c, u, ViewedPost, NoId)
  \/ \E c \in Slots : CommentInc(c)

SpecViews == InitFeed /\ [][NextViews]_vars

\* view requests with their background increments, among likes and unlikes of
\* one post
NextViewReply ==
  \/ \E c \in Slots, p \in PostArgs : ViewRequest(c, p)
  \/ \E c \in Slots : ViewIncrement(c)
  \/ \E c \in Slots : ViewStoreError(c)
  \/ \E c \in Slots, u \in Users : LikeCountsBounded /\ LikeRequest(c, u, ViewedPost)
  \/ \E c \in Slots, u \in Users : UnlikeRequest(c, u, ViewedPost)
  \/ \E c \in Slots : LikeInc(c)
  \/ \E c \in Slots : UnlikeDec(c)

SpecViewReply == InitFeed /\ [][NextViewReply]_vars

\* ------------------------------------------------ the feed: listings
\* the clock at the listings, a minute after the first post
FeedNow == 60000

\* the view counts and creation times of the posts listed: two in the same
\* second, two a second apart, two a minute apart (a minute outweighs one
\* view and is outweighed by one like)
FeedViews == {0, 1}

FeedCreated == {400, 1000, FeedNow}

\* who asks for a listing: nobody in particular, or user 1
FeedCallers == {NoId, 1}

\* the store of InitFeed a minute on, with the second post created later and
\* each post viewed or not
InitRanked ==
  /\ now = FeedNow
  /\ jobs = [i \in JobIds |->
       [id |-> i, status |-> "completed", created_at |-> 0, output_format |-> "splat",
        result_key |-> ResultKey(i, "splat"), user_id |-> NoId, stages |-> StageTemplate,
        max_frames |-> 40, training_iterations |-> 7000, resolution |-> 768]]
  /\ \E v \in [JobIds -> FeedViews], t \in [JobIds \ {1} -> FeedCreated] :
       /\ posts = [i \in JobIds |->
            [id |-> i, user_id |-> NoId, result_key |-> ResultKey(i, "splat"),
             output_format |-> "splat", view_count |-> v[i], like_count |-> 0,
             comment_count |-> 0, created_at |-> IF i = 1 THEN 0 ELSE t[i]]]
       /\ viewed = v
  /\ likes = EmptyBag
  /\ comments = <<>>
  /\ nextComment = 0
  /\ calls = [c \in Slots |-> IdleCall]
  /\ reply = NoReply
  /\ timesClaimed = [j \in JobIds |-> 1]
  /\ finalizes = [j \in JobIds |-> 1]

\* listings for an anonymous caller while the posts are viewed, liked and
\* unliked
NextRanking ==
  \/ \E c \in Slots, limit \in 1..MaxJobs, offset \in 0..1 : FeedRequest(c, NoId, limit, offset)
  \/ \E p \in JobIds : View(p)
  \/ \E c \in Slots, p \in JobIds : LikeCountsBounded /\ LikeRequest(c, 1, p)
  \/ \E c \in Slots, p \in JobIds : UnlikeRequest(c, 1, p)
  \/ \E c \in Slots : LikeInc(c)
  \/ \E c \in Slots : UnlikeDec(c)

SpecRanking == InitRanked /\ [][NextRanking]_vars

\* listings of all posts for user 1 or an anonymous caller, among the likes
\* and unlikes of every user
NextListing ==
  \/ \E c \in Slots, u \in FeedCallers : FeedRequest(c, u, MaxJobs, 0)
  \/ \E c \in Slots : FeedLiked(c)
  \/ \E c \in Slots, u \in Users, p \in JobIds : LikeCountsBounded /\ LikeRequest(c, u, p)
  \/ \E c \in Slots, u \in Users, p \in JobIds : UnlikeRequest(c, u, p)
  \/ \E c \in Slots : LikeInc(c)
  \/ \E c \in Slots : UnlikeDec(c)

SpecListing == InitFeed /\ [][NextListing]_vars

\* ------------------------------------------------ the feed: comments
\* a comment id that names no comment
UnknownComment == MaxComments + MaxReplies + 2

\* the ids a client can name: those of comments stored so far, or a wrong one
KnownComments == (1..nextComment) \cup {UnknownComment}

NextComments ==
  \/ \E c \in Slots, u \in Users, p \in PostArgs, parentId \in KnownComments \cup {NoId} :
       CommentRequest(c, u, p, parentId)
  \/ \E c \in Slots : CommentInsert(c)
  \/ \E c \in Slots : CommentInc(c)
  \/ \E c \in Slots, u \in Users, commentId \in KnownComments : DeleteRequest(c, u, commentId)
  \/ \E c \in Slots : DeleteReplies(c)
  \/ \E c \in Slots : DeleteSelf(c)
  \/ \E c \in Slots : DeleteDec(c)

SpecComments == InitFeed /\ [][NextComments]_vars

\* ------------------------------------------------ the feed: all counters
\* the user who comments
Commenter == 1

\* views, likes and unlikes by any user, and comments, replies and deletes by
\* one user, all on one post, in any overlap
NextCounters ==
  \/ View(ViewedPost)
  \/ \E c \in Slots, u \in Users : LikeCountsBounded /\ LikeRequest(c, u, ViewedPost)
  \/ \E c \in Slots, u \in Users : UnlikeRequest(c, u, ViewedPost)
  \/ \E c \in Slots : LikeInc(c)
  \/ \E c \in Slots : UnlikeDec(c)
  \/ \E c \in Slots, parentId \in 0..nextComment :
       CommentRequest(c, Commenter, ViewedPost, parentId)
  \/ \E c \in Slots : CommentInsert(c)
  \/ \E c \in Slots : CommentInc(c)
  \/ \E c \in Slots, commentId \in 1..nextComment :
       DeleteRequest(c, Commenter, commentId)
  \/ \E c \in Slots : DeleteReplies(c)
  \/ \E c \in Slots : DeleteSelf(c)
  \/ \E c \in Slots : DeleteDec(c)

SpecCounters == InitFeed /\ [][NextCounters]_vars

\* ------------------------------------------------ the feed: comment bodies
\* bodies of every kind: blank, short, of the greatest length and one longer,
\* with and without whitespace around them
Bodies == [lead : 0..1, text : {0, 1, MaxBodyLen, MaxBodyLen + 1}, trail : 0..1]

NextBody ==
  \/ \E c \in Slots, u \in Users, b \in Bodies : CommentCreate(c, u, ViewedPost, NoId, b)
  \/ \E c \in Slots : CommentInc(c)

\* top-level comments on one post with any body
SpecBody == InitFeed /\ [][NextBody]_vars

\* ------------------------------------------------ the feed: one thread
\* the top-level comment of the thread
ThreadTop == 1

\* the replies of a thread: ids after ThreadTop, any post, any author
ReplyRows ==
  [id : 2..(MaxReplies + 1), post_id : JobIds, user_id : Users, parent_id : {ThreadTop},
   body : {OkBody}, created_at : {0}]

\* the store after user 1 commented on post 1 and k <= MaxReplies replies to
\* that comment were created, every create having run to its end
InitThread ==
  /\ now = 0
  /\ jobs = [i \in JobIds |->
       [id |-> i, status |-> "completed", created_at |-> 0, output_format |-> "splat",
        result_key |-> ResultKey(i, "splat"), user_id |-> NoId, stages |-> StageTemplate,
        max_frames |-> 40, training_iterations |-> 7000, resolution |-> 768]]
  /\ \E k \in 0..MaxReplies : \E rs \in [2..(k + 1) -> ReplyRows] :
       /\ \A i \in DOMAIN rs : rs[i].id = i
       /\ comments = [i \in 1..(k + 1) |->
            IF i = 1 THEN [id |-> ThreadTop, post_id |-> 1, user_id |-> 1, parent_id |-> NoId,
                           body |-> OkBody, created_at |-> 0]
                     ELSE rs[i]]
       /\ nextComment = k + 1
  /\ posts = [i \in JobIds |->
       [id |-> i, user_id |-> NoId, result_key |-> ResultKey(i, "splat"),
        output_format |-> "splat", view_count |-> 0, like_count |-> 0,
        comment_count |-> Cardinality({x \in DOMAIN comments : comments[x].post_id = i}),
        created_at |-> 0]]
  /\ likes = EmptyBag
  /\ calls = [c \in Slots |-> IdleCall]
  /\ reply = NoReply
  /\ timesClaimed = [j \in JobIds |-> 1]
  /\ finalizes = [j \in JobIds |-> 1]
  /\ viewed = [j \in JobIds |-> 0]

\* one request to delete a comment, run to its end
NextThread ==
  \/ \E c \in Slots, u \in Users, commentId \in KnownComments :
       /\ calls[c].pc = "idle" /\ Quiescent /\ reply = NoReply
       /\ DeleteRequest(c, u, commentId)
  \/ \E c \in Slots : DeleteReplies(c)
  \/ \E c \in Slots : DeleteSelf(c)
  \/ \E c \in Slots : DeleteDec(c)

SpecThread == InitThread /\ [][NextThread]_vars

\* ------------------------------------------------ the feed: comment lists
\* the clock at the listings, after every comment stored before them
ListNow == 2

\* the comments stored at the start: any post, top-level or a reply to an
\* earlier top-level comment, created at 0 or 1
ListedRows ==
  [id : CommentIds, post_id : JobIds, user_id : {Commenter}, parent_id : {NoId} \cup CommentIds,
   body : {OkBody}, created_at : 0..1]

\* the store after k <= MaxComments comments and replies were created by one
\* user, every create having run to its end
InitListed ==
  /\ now = ListNow
  /\ jobs = [i \in JobIds |->
       [id |-> i, status |-> "completed", created_at |-> 0, output_format |-> "splat",
        result_key |-> ResultKey(i, "splat"), user_id |-> NoId, stages |-> StageTemplate,
        max_frames |-> 40, training_iterations |-> 7000, resolution |-> 768]]
  /\ \E k \in 0..MaxComments : \E rs \in [1..k -> ListedRows] :
       /\ \A i \in 1..k :
            /\ rs[i].id = i
            /\ rs[i].parent_id # NoId =>
                 /\ rs[i].parent_id < i
                 /\ rs[rs[i].parent_id].parent_id = NoId
            /\ i > 1 => rs[i - 1].created_at <= rs[i].created_at
       /\ comments = rs
       /\ nextComment = k
  /\ posts = [i \in JobIds |->
       [id |-> i, user_id |-> NoId, result_key |-> ResultKey(i, "splat"),
        output_format |-> "splat", view_count |-> 0, like_count |-> 0,
        comment_count |-> Cardinality({x \in DOMAIN comments : comments[x].post_id = i}),
        created_at |-> 0]]
  /\ likes = EmptyBag
  /\ calls = [c \in Slots |-> IdleCall]
  /\ reply = NoReply
  /\ timesClaimed = [j \in JobIds |-> 1]
  /\ finalizes = [j \in JobIds |-> 1]
  /\ viewed = [j \in JobIds |-> 0]

\* the pages asked for: the first two comments, and the second alone
ListPages == {[limit |-> 2, offset |-> 0], [limit |-> 1, offset |-> 1]}

\* listings of one post's comments among deletes
NextList ==
  \/ \E c \in Slots, pg \in ListPages : ListRequest(c, ViewedPost, pg.limit, pg.offset)
  \/ \E c \in Slots : ListCount(c)
  \/ \E c \in Slots : ListReplies(c)
  \/ \E c \in Slots, commentId \in 1..nextComment : DeleteRequest(c, Commenter, commentId)
  \/ \E c \in Slots : DeleteReplies(c)
  \/ \E c \in Slots : DeleteSelf(c)
  \/ \E c \in Slots : DeleteDec(c)

SpecList == InitListed /\ [][NextList]_vars

\* ---------------------------------------------------------------- properties
RECURSIVE SumTo(_, _)
SumTo(f, n) == IF n = 0 THEN 0 ELSE f[n] + SumTo(f, n - 1)

Min(a, b) == IF a <= b THEN a ELSE b

\* claim calls answered so far
ClaimsAnswered == Cardinality({c \in Slots : calls[c].pc = "done"})

\* C1: of N claim calls against M queued jobs exactly min(N, M) return a job,
\* no job is returned twice, and the returned jobs are the ones now claimed
C1_ClaimExactlyMin ==
  /\ SumTo(timesClaimed, MaxJobs) = Min(ClaimsAnswered, Len(jobs))
  /\ \A j \in JobIds : timesClaimed[j] <= 1
  /\ \A i \in DOMAIN jobs :
       /\ timesClaimed[jobs[i].id] = 1 <=> jobs[i].status = "claimed"
       /\ timesClaimed[jobs[i].id] = 0 <=> jobs[i].status = "queued"

\* all callers answered, two jobs or more, each returned to one caller
C1_Witness ==
  /\ ClaimsAnswered = MaxCalls
  /\ Len(jobs) >= 2
  /\ \A i \in DOMAIN jobs : jobs[i].status = "claimed" /\ timesClaimed[jobs[i].id] = 1

\* C2: a job that has left queued never returns to queued, and claim() hands
\* out no job twice
C2_NeverRequeued ==
  [][/\ \A i \in DOMAIN jobs : jobs[i].status # "queued" => jobs'[i].status # "queued"
     /\ \A j \in JobIds : timesClaimed'[j] <= 1]_vars

\* one job was claimed once and has failed since, another is claimed now
C2_Witness ==
  /\ Len(jobs) = MaxJobs
  /\ \E i \in DOMAIN jobs : jobs[i].status = "failed" /\ timesClaimed[jobs[i].id] = 1
  /\ \E i \in DOMAIN jobs : jobs[i].status = "claimed"

PostCount(id) == Cardinality(PostIdx(id))

\* C5: once finalize has ended for a job, once or twice or more, the job has
\* exactly one post row; no job ever has two
C5_OnePostPerJob ==
  \A j \in JobIds :
    /\ PostCount(j) <= 1
    /\ finalizes[j] >= 1 => PostCount(j) = 1

\* finalize has ended twice for a job and nothing is in flight
C5_Witness ==
  /\ Quiescent
  /\ \E j \in JobIds : finalizes[j] = 2 /\ PostCount(j) = 1

\* C6: a job has a post exactly when it is completed with a result_key
C6_PostIffCompleted ==
  \A j \in JobIds :
    PostIdx(j) # {} <=>
      \E i \in JobIdx(j) : jobs[i].status = "completed" /\ jobs[i].result_key # NoKey

LegalEdges ==
  {<<"queued", "claimed">>, <<"claimed", "processing">>, <<"processing", "completed">>,
   <<"queued", "failed">>, <<"claimed", "failed">>, <<"processing", "failed">>}

\* C7: every change of a job's status follows a legal edge
C7_LegalTransitions ==
  [][\A i \in DOMAIN jobs :
       jobs'[i].status # jobs[i].status => <<jobs[i].status, jobs'[i].status>> \in LegalEdges]_vars

\* C8: result_key is set exactly on the completed jobs
C8_ResultIffCompleted ==
  \A i \in DOMAIN jobs : jobs[i].result_key # NoKey <=> jobs[i].status = "completed"

\* SELECT COUNT(*) FROM likes WHERE post_id = p
LikeRows(p) ==
  BagCardinality([r \in {x \in BagToSet(likes) : x.post_id = p} |-> likes[r]])

\* C3: when the like and unlike calls of distinct users have all completed,
\* every post's like_count is the number of its Like rows
C3_LikeCountMatchesRows ==
  Quiescent => \A i \in DOMAIN posts : posts[i].like_count = LikeRows(posts[i].id)

\* a like and an unlike of one post by two users, both between their statements
C3_Witness ==
  \E c, d \in Slots :
    /\ calls[c].op = "like" /\ calls[c].pc = "inc"
    /\ calls[d].op = "unlike" /\ calls[d].pc = "dec"
    /\ calls[c].id = calls[d].id /\ calls[c].user # calls[d].user

\* C9: when the like and unlike calls of one user on one post have all
\* completed, like_count counts each user once if the Like row exists, else not
C9_SameUserNetEffect ==
  Quiescent =>
    \A i \in DOMAIN posts :
      posts[i].like_count = Cardinality({u \in Users : LikeIdx(u, posts[i].id) # {}})

CommentRows(p) == Cardinality({i \in DOMAIN comments : comments[i].post_id = p})

\* C4: when the comment create and delete calls have all completed, every
\* post's comment_count is the number of comments stored for it
C4_CommentCountMatchesRows ==
  Quiescent => \A i \in DOMAIN posts : posts[i].comment_count = CommentRows(posts[i].id)

\* C10: no stored comment has a parent that is itself a reply
C10_DepthAtMostOne ==
  \A i \in DOMAIN comments :
    comments[i].parent_id # NoId =>
      \A k \in CommentIdx(comments[i].parent_id) : comments[k].parent_id = NoId

\* a comment declared as a reply to a reply has been stored under the
\* top-level comment
C10_Witness ==
  \E c \in Slots :
    /\ calls[c].op = "comment" /\ calls[c].pc = "inc"
    /\ calls[c].parent # calls[c].resolved
    /\ \E i \in CommentIdx(calls[c].parent) : comments[i].parent_id = calls[c].resolved
    /\ \E i \in CommentIdx(calls[c].comment) : comments[i].parent_id = calls[c].resolved

\* C14: the job a claim returns was created no later than any job queued at
\* that moment, and of the queued jobs created at the same time it is the one
\* inserted first
C14_ClaimsOldestFirst ==
  [][\A i \in DOMAIN jobs :
       (jobs[i].status = "queued" /\ jobs'[i].status = "claimed") =>
         \A k \in DOMAIN jobs :
           jobs[k].status = "queued" =>
             \/ jobs[i].created_at < jobs[k].created_at
             \/ jobs[i].created_at = jobs[k].created_at /\ i <= k]_vars

\* C19: a finalize of a failed job is answered with an error and changes
\* neither the jobs nor the posts
C19_FinalizeFailedRejected ==
  [][\A c \in Slots, id \in JobIds :
       (\E i \in JobIdx(id) : jobs[i].status = "failed") =>
         /\ ResultRequest(c, id) => (reply'.op = "result" /\ reply'.http >= 400)
         /\ (calls[c].id = id /\ (ResultUpdate(c) \/ ResultSelect(c) \/ ResultInsert(c)))
              => (jobs' = jobs /\ posts' = posts)]_vars

\* C20: a status request with status queued is answered 400 and leaves every
\* job as it was, whatever the job's status
C20_QueuedRejected ==
  [][\A c \in Slots, id \in JobIds :
       WorkerStatus(c, id, "queued") =>
         /\ jobs' = jobs
         /\ reply' = [op |-> "status", id |-> id, http |-> 400, ret |-> 0]]_vars

\* status queued was refused for a job that is being processed
C20_Witness ==
  /\ reply.op = "status" /\ reply.http = 400
  /\ \E i \in JobIdx(reply.id) : jobs[i].status = "processing"

\* SELECT COUNT(*) FROM likes WHERE user_id = u AND post_id = p
LikePairRows(u, p) == BagCardinality([r \in LikeIdx(u, p) |-> likes[r]])

\* the users who have a Like row on post p
Likers(p) == {u \in Users : LikeIdx(u, p) # {}}

\* C15: a like of a pair that has a row changes nothing and answers "already
\* liked"; a like of a pair without a row stores the row, then raises
\* like_count by one and answers "newly liked"; with likes only, like_count
\* never exceeds the number of users who like the post
C15_LikeOnceOnly ==
  /\ [](\A i \in DOMAIN posts : posts[i].like_count <= Cardinality(Likers(posts[i].id)))
  /\ [][\A c \in Slots, u \in Users, p \in JobIds :
         /\ (LikeRequest(c, u, p) /\ LikeIdx(u, p) # {}) =>
              /\ likes' = likes /\ posts' = posts
              /\ reply' = [op |-> "like", id |-> p, http |-> 200, ret |-> 0]
         /\ (LikeRequest(c, u, p) /\ LikeIdx(u, p) = {}) =>
              /\ likes' = likes (+) SetToBag({[user_id |-> u, job_id |-> p, post_id |-> p]})
              /\ calls'[c].pc = "inc"
         /\ (LikeInc(c) /\ calls[c].id = p) =>
              /\ \A i \in DOMAIN posts :
                   posts'[i].like_count =
                     posts[i].like_count + (IF posts[i].id = p THEN 1 ELSE 0)
              /\ reply' = [op |-> "like", id |-> p, http |-> 200, ret |-> 1]]_vars

\* a user's second like of a post was answered "already liked" while the
\* first was still between its statements
C15_Witness ==
  /\ reply.op = "like" /\ reply.http = 200 /\ reply.ret = 0
  /\ \E c \in Slots : calls[c].op = "like" /\ calls[c].pc = "inc" /\ calls[c].id = reply.id
  /\ Cardinality(Likers(reply.id)) = 1
  /\ \E i \in PostIdx(reply.id) : posts[i].like_count = 0

\* C16: an unlike of a pair without a row changes nothing and returns false;
\* an unlike of a pair with a row deletes it, then lowers like_count by one,
\* not below 0, and returns true
C16_UnlikeContract ==
  [][\A c \in Slots, u \in Users, p \in JobIds :
       /\ (UnlikeRequest(c, u, p) /\ LikeIdx(u, p) = {}) =>
            /\ likes' = likes /\ posts' = posts
            /\ reply' = [op |-> "unlike", id |-> p, http |-> 200, ret |-> 0]
       /\ (UnlikeRequest(c, u, p) /\ LikeIdx(u, p) # {}) =>
            /\ \A r \in BagToSet(likes') : ~(r.user_id = u /\ r.post_id = p)
            /\ \A r \in BagToSet(likes) \ LikeIdx(u, p) :
                 r \in BagToSet(likes') /\ likes'[r] = likes[r]
            /\ calls'[c].pc = "dec"
       /\ (UnlikeDec(c) /\ calls[c].id = p) =>
            /\ \A i \in DOMAIN posts :
                 /\ posts'[i].like_count >= 0
                 /\ posts'[i].like_count =
                      IF posts[i].id = p /\ posts[i].like_count > 0
                        THEN posts[i].like_count - 1 ELSE posts[i].like_count
            /\ reply' = [op |-> "unlike", id |-> p, http |-> 200, ret |-> 1]]_vars

\* an unlike has returned true and left its post with no row and count 0
C16_Witness ==
  /\ Quiescent
  /\ reply.op = "unlike" /\ reply.ret = 1
  /\ Likers(reply.id) = {}
  /\ \E i \in PostIdx(reply.id) : posts[i].like_count = 0

\* C17: no (user, post) pair has more than one Like row
C17_OneRowPerPair ==
  \A u \in Users, p \in PostArgs : LikePairRows(u, p) <= 1

\* every user likes a post, and a further like of it was answered "already liked"
C17_Witness ==
  /\ reply.op = "like" /\ reply.ret = 0 /\ reply.http = 200
  /\ Likers(reply.id) = Users
  /\ \A u \in Users : LikePairRows(u, reply.id) = 1

\* C18: every post's view_count is the number of incrementViewCount calls made
\* for it, whatever likes, unlikes and comments ran in between
C18_ViewsAllCounted ==
  \A i \in DOMAIN posts : posts[i].view_count = viewed[posts[i].id]

\* a post was viewed MaxViews times while a like and a comment on it are
\* between their statements
C18_Witness ==
  \E p \in JobIds :
    /\ viewed[p] = MaxViews
    /\ \E c \in Slots : calls[c].op = "like" /\ calls[c].pc = "inc" /\ calls[c].id = p
    /\ \E c \in Slots : calls[c].op = "comment" /\ calls[c].pc = "inc" /\ calls[c].id = p

\* C11: every stored reply names a parent that is stored
C11_NoOrphanReply ==
  \A i \in DOMAIN comments :
    comments[i].parent_id # NoId => CommentIdx(comments[i].parent_id) # {}

\* a delete of a top-level comment has completed while the creation of a
\* reply to that comment is between its parent lookup and its INSERT
C11_Witness ==
  /\ reply.op = "delete" /\ reply.http = 200
  /\ CommentIdx(reply.id) = {}
  /\ \E c \in Slots : /\ calls[c].op = "comment" /\ calls[c].pc = "insert"
                       /\ calls[c].resolved = reply.id

\* C12: the count a delete is about to take off comment_count is the number
\* of rows its statements removed
C12_DecrementIsRowsRemoved ==
  \A c \in Slots :
    (calls[c].op = "delete" /\ calls[c].pc = "dec") => calls[c].n = calls[c].removed

\* C13: the delete of a top-level comment with k replies by its author removes
\* the k+1 rows, takes k+1 off the comment_count of the comment's post and
\* reports k+1 (in SpecThread k+1 is the number of comments created)
C13_CascadeDelete ==
  [][\A c \in Slots :
       (DeleteDec(c) /\ calls[c].id = ThreadTop) =>
         /\ comments' = <<>>
         /\ calls[c].removed = nextComment
         /\ reply' = [op |-> "delete", id |-> ThreadTop, http |-> 200, ret |-> nextComment]
         /\ \A i \in DOMAIN posts :
              posts'[i].comment_count =
                posts[i].comment_count - (IF posts[i].id = calls[c].post THEN nextComment ELSE 0)]_vars

\* C21: a finalize of a job that exists is never answered as a failure, a
\* repeated one included
C21_RepeatNotFailure ==
  (reply.op = "result" /\ JobIdx(reply.id) # {}) => reply.http = 200

\* C27: finalize sets the job to completed with the result key, and the post
\* it inserts has the job's owner, result key and output format and three
\* counters at 0
C27_FinalizeYields ==
  [][\A c \in Slots :
       /\ ResultUpdate(c) =>
            \A i \in JobIdx(calls[c].id) :
              jobs'[i].status = "completed" /\ jobs'[i].result_key = calls[c].key
       /\ (ResultInsert(c) /\ PostIdx(calls[c].id) = {}) =>
            \E i \in JobIdx(calls[c].id) :
              /\ posts' = Append(posts,
                     [id |-> jobs[i].id, user_id |-> jobs[i].user_id,
                      result_key |-> jobs[i].result_key,
                      output_format |-> jobs[i].output_format,
                      view_count |-> 0, like_count |-> 0, comment_count |-> 0,
                      created_at |-> now])
              /\ jobs[i].result_key = ResultKey(jobs[i].id, jobs[i].output_format)
              /\ reply' = [op |-> "result", id |-> jobs[i].id, http |-> 200, ret |-> 1]]_vars

\* the only finalize of a signed-in user's ply job was answered 200 and the
\* job is completed with its post
C27_Witness ==
  /\ reply.op = "result" /\ reply.http = 200 /\ reply.ret = 1
  /\ finalizes[reply.id] = 1
  /\ \E i \in JobIdx(reply.id) :
       /\ jobs[i].status = "completed" /\ jobs[i].output_format = "ply"
       /\ jobs[i].user_id # NoId
       /\ \E k \in PostIdx(reply.id) : posts[k].user_id = jobs[i].user_id

\* C28: a create appends one job, queued, with the four template stages
\* pending, and leaves every job stored before as it was
C28_CreateAddsOne ==
  [][\A fmt \in OutputFormats, u \in Submitters :
       CreateJob(fmt, u) =>
         /\ Len(jobs') = Len(jobs) + 1
         /\ \A i \in DOMAIN jobs : jobs'[i] = jobs[i]
         /\ jobs'[Len(jobs')].status = "queued"
         /\ jobs'[Len(jobs')].id \notin {jobs[i].id : i \in DOMAIN jobs}
         /\ Len(jobs'[Len(jobs')].stages) = 4
         /\ \A k \in 1..4 :
              jobs'[Len(jobs')].stages[k] = [name |-> StageNames[k], status |-> "pending"]]_vars

\* a job in processing with a stage running, and a job created queued with
\* the template
C28_Witness ==
  /\ Len(jobs) = 2
  /\ jobs[1].status = "processing" /\ jobs[1].stages = FirstRunning
  /\ jobs[2].status = "queued" /\ jobs[2].stages = StageTemplate

\* C29: the stages of every job are the four template stages in their order
C29_StagesKeepTemplate ==
  \A i \in DOMAIN jobs :
    /\ Len(jobs[i].stages) = Len(StageNames)
    /\ \A k \in DOMAIN jobs[i].stages : jobs[i].stages[k].name = StageNames[k]

\* C30: a claim with no job queued is answered 200 with a null job and changes
\* no job
C30_EmptyClaim ==
  [][\A c \in Slots :
       (WorkerClaim(c) /\ \A i \in DOMAIN jobs : jobs[i].status # "queued") =>
         /\ jobs' = jobs
         /\ reply' = [op |-> "claim", id |-> NoId, http |-> 200, ret |-> NoId]]_vars

\* a claim found nothing queued among a failed job and a completed one
C30_Witness ==
  /\ reply = [op |-> "claim", id |-> NoId, http |-> 200, ret |-> NoId]
  /\ \E i \in DOMAIN jobs : jobs[i].status = "failed"
  /\ \E i \in DOMAIN jobs : jobs[i].status = "completed"

\* the parent_id a comment declared under parentId is to be stored with
FlattenedParent(parentId) ==
  IF \E i \in CommentIdx(parentId) : comments[i].parent_id # NoId
    THEN comments[CHOOSE i \in CommentIdx(parentId) : TRUE].parent_id
    ELSE parentId

\* C22: a comment declared under a reply is stored under that reply's
\* top-level comment, a comment declared under a top-level comment is stored
\* under it
C22_StoredUnderTopLevel ==
  \A c \in Slots :
    (calls[c].op = "comment" /\ calls[c].parent # NoId) =>
      /\ CommentIdx(calls[c].parent) # {} => calls[c].resolved = FlattenedParent(calls[c].parent)
      /\ calls[c].pc = "inc" =>
           \A k \in CommentIdx(calls[c].comment) : comments[k].parent_id = calls[c].resolved

\* a reply was created and answered, and a comment declared under that reply
\* has been stored under the reply's parent
C22_Witness ==
  /\ reply.op = "comment" /\ reply.http = 201
  /\ \E c \in Slots :
       /\ calls[c].op = "comment" /\ calls[c].pc = "inc"
       /\ calls[c].parent = reply.ret
       /\ \E i \in CommentIdx(reply.ret), k \in CommentIdx(calls[c].comment) :
            /\ comments[i].parent_id # NoId
            /\ comments[k].parent_id = comments[i].parent_id

\* C23: the delete of a reply removes that row and no other and takes exactly
\* 1 off the comment_count of the reply's post
C23_ReplyDeleteFrame ==
  [][\A c \in Slots :
       /\ (DeleteSelf(c) /\ ~calls[c].top) =>
            comments' = SelectSeq(comments, LAMBDA r : r.id # calls[c].id)
       /\ (DeleteDec(c) /\ ~calls[c].top) =>
            /\ comments' = comments
            /\ \A i \in DOMAIN posts :
                 posts'[i].comment_count =
                   posts[i].comment_count - (IF posts[i].id = calls[c].post THEN 1 ELSE 0)]_vars

\* the requester is the author of the stored comment commentId
IsAuthor(u, commentId) == \E i \in CommentIdx(commentId) : comments[i].user_id = u

\* C24: a delete request by someone who is not the author of a stored comment
\* of that id ends at once, removes no comment and changes no counter
C24_ForeignDeleteNoEffect ==
  [][\A c \in Slots, u \in Users, commentId \in KnownComments :
       (DeleteRequest(c, u, commentId) /\ ~IsAuthor(u, commentId)) =>
         /\ comments' = comments /\ posts' = posts
         /\ calls'[c].pc = "done"]_vars

\* a delete of another user's comment was refused and the comment is stored
C24_Witness ==
  /\ Quiescent
  /\ reply.op = "delete" /\ reply.http = 404
  /\ CommentIdx(reply.id) # {}

\* C25: the answer to a delete request of a comment of another user is the
\* answer to a delete request of an id that names no comment
C25_SameAnswer ==
  [][\A c \in Slots, u \in Users, commentId \in KnownComments :
       (DeleteRequest(c, u, commentId) /\ ~IsAuthor(u, commentId)) =>
         reply' = [op |-> "delete", id |-> commentId, http |-> 404, ret |-> 0]]_vars

\* a delete of an id that names no comment was refused while comments exist
C25_Witness ==
  /\ reply.op = "delete" /\ reply.http = 404
  /\ CommentIdx(reply.id) = {}
  /\ comments # <<>>

\* C26: a body that is blank or longer than 1000 characters once trimmed is
\* answered 400 and stores nothing; any other body is stored trimmed
C26_BodyValidated ==
  /\ [](\A i \in DOMAIN comments :
          /\ comments[i].body.lead = 0 /\ comments[i].body.trail = 0
          /\ comments[i].body.text >= 1 /\ comments[i].body.text <= 1000)
  /\ [][\A c \in Slots, u \in Users, b \in Bodies :
         CommentCreate(c, u, ViewedPost, NoId, b) =>
           IF b.text = 0 \/ b.text > 1000
             THEN /\ comments' = comments /\ posts' = posts
                  /\ reply' = [op |-> "comment", id |-> ViewedPost, http |-> 400, ret |-> 0]
             ELSE /\ Len(comments') = Len(comments) + 1
                  /\ comments'[Len(comments')].body = [lead |-> 0, text |-> b.text, trail |-> 0]]_vars

\* a comment of 1000 characters is stored and a later body was refused
C26_Witness ==
  /\ reply.op = "comment" /\ reply.http = 400
  /\ \E i \in DOMAIN comments : comments[i].body.text = MaxBodyLen


\* C31 as stated: a status request for an id that matches no job is answered
\* "not found" (404), whatever else it carries, and leaves the jobs as they were
C31_UnknownIdNotFound ==
  [][\A c \in Slots, id \in JobIds, s \in StatusArgs, st \in StageArgs :
       (JobIdx(id) = {} /\ WorkerStatusWith(c, id, s, st))
         => (reply'.http = 404 /\ jobs' = jobs)]_vars

\* C31 amended: a status request for an id that matches no job leaves the jobs
\* as they were and is answered "not found" (404) when its status is one the
\* route accepts, and "invalid status" (400) when it is not
C31_UnknownIdRejected ==
  [][\A c \in Slots, id \in JobIds, s \in StatusArgs, st \in StageArgs :
       (JobIdx(id) = {} /\ WorkerStatusWith(c, id, s, st))
         => /\ jobs' = jobs
            /\ reply' = [op |-> "status", id |-> id,
                         http |-> IF s \in validStatuses THEN 404 ELSE 400,
                         ret |-> 0]]_vars

\* a status request for an unknown id was answered 404 while another job exists
C31_Witness ==
  /\ reply.op = "status" /\ reply.http = 404
  /\ JobIdx(reply.id) = {}
  /\ Len(jobs) > 0


\* C32: every view request is answered with success (200), whether its
\* increment is then applied or not, and a background increment that is not
\* applied (the post id is unknown, or the store refused the statement)
\* leaves every post's counters as they were
C32_ViewNeverFails ==
  /\ [](reply.op = "view" => reply.http = 200)
  /\ [][\A c \in Slots :
         (ViewStoreError(c) \/ (PostIdx(calls[c].id) = {} /\ ViewIncrement(c)))
           => posts' = posts]_vars

\* the last answer was to a view of an unknown post, every background
\* increment has ended, and the posts carry views and likes
C32_Witness ==
  /\ reply.op = "view" /\ reply.id = UnknownPost /\ reply.http = 200
  /\ Quiescent
  /\ \E i \in DOMAIN posts : posts[i].view_count > 0 /\ posts[i].like_count > 0


\* C33: view_count, like_count and comment_count of every post are
\* non-negative integers in every reachable state
C33_CountersNonNegative ==
  \A i \in DOMAIN posts :
    /\ posts[i].view_count \in Nat
    /\ posts[i].like_count \in Nat
    /\ posts[i].comment_count \in Nat

\* an unlike has just lowered a like_count that was already 0 (the like whose
\* row it removed has not counted itself yet), on a post that has been viewed
\* and commented
C33_Witness ==
  /\ reply.op = "unlike" /\ reply.ret = 1
  /\ \E c \in Slots : calls[c].op = "like" /\ calls[c].pc = "inc" /\ calls[c].id = reply.id
  /\ \E i \in PostIdx(reply.id) :
       /\ posts[i].like_count = 0
       /\ posts[i].view_count > 0
       /\ posts[i].comment_count > 0


\* q is newer than p: created later at all, or (bySecond) in a later second
Newer(q, p, bySecond) ==
  IF bySecond THEN Seconds(q.created_at) > Seconds(p.created_at)
              ELSE q.created_at > p.created_at

\* the pages (limit, offset) of the listings in which scores never rise and,
\* of two posts with equal view_count and like_count, a newer one never comes
\* after an older one
RankedPages(limit, offset, bySecond) ==
  {Page([i \in DOMAIN posts |-> posts[o[i]].id], limit, offset) :
     o \in {o \in [DOMAIN posts -> DOMAIN posts] :
              /\ \A i, j \in DOMAIN posts : i # j => o[i] # o[j]
              /\ \A i, j \in DOMAIN posts : i < j =>
                   /\ ScoreAtLeast(posts[o[i]], posts[o[j]])
                   /\ (/\ posts[o[i]].view_count = posts[o[j]].view_count
                       /\ posts[o[i]].like_count = posts[o[j]].like_count)
                        => ~Newer(posts[o[j]], posts[o[i]], bySecond)}}

C35_LikedFlagExact ==
  /\ [][\A c \in Slots :
         FeedLiked(c) =>
           /\ \A k \in DOMAIN calls[c].rows :
                (calls[c].rows[k] \in calls'[c].liked)
                  <=> (LikePairRows(calls[c].user, calls[c].rows[k]) > 0)
           /\ calls'[c].liked \subseteq {calls[c].rows[k] : k \in DOMAIN calls[c].rows}]_vars
  /\ [](\A c \in Slots :
         (calls[c].op = "feed" /\ calls[c].pc = "done" /\ calls[c].user = NoId)
           => calls[c].liked = {})

\* user 1 was listed both posts with exactly one flagged, while the other is
\* liked by user 2 alone, and an anonymous caller was listed both with no flag
C35_Witness ==
  /\ \E c \in Slots, p, q \in JobIds :
       /\ calls[c].op = "feed" /\ calls[c].pc = "done" /\ calls[c].user = 1
       /\ Len(calls[c].rows) = 2
       /\ calls[c].liked = {p}
       /\ q # p
       /\ LikePairRows(1, p) = 1 /\ LikePairRows(1, q) = 0 /\ LikePairRows(2, q) = 1
  /\ \E c \in Slots :
       /\ calls[c].op = "feed" /\ calls[c].pc = "done" /\ calls[c].user = NoId
       /\ Len(calls[c].rows) = 2


\* the created_at of the stored comment with this id
CreatedAt(id) == comments[CHOOSE i \in CommentIdx(id) : TRUE].created_at

\* list holds each id of the set ids once, and no comment comes before an
\* older one
IsOldestFirstListOf(list, ids) ==
  /\ Len(list) = Cardinality(ids)
  /\ {list[k] : k \in DOMAIN list} = ids
  /\ \A i, j \in DOMAIN list : i < j => CreatedAt(list[i]) <= CreatedAt(list[j])

\* the ids of the top-level comments of post p
TopLevelOf(p) ==
  {comments[i].id : i \in {x \in DOMAIN comments :
                             comments[x].post_id = p /\ comments[x].parent_id = NoId}}

\* the ids of the replies to comment id
RepliesOf(id) == {comments[i].id : i \in {x \in DOMAIN comments : comments[x].parent_id = id}}

BadConfig(form) ==
  \/ \E f \in {form.max_frames, form.training_iterations, form.resolution} : f.kind = "text"
  \/ form.max_frames.kind = "int" /\ form.max_frames.n \notin 8..80
  \/ form.training_iterations.kind = "int" /\ form.training_iterations.n \notin 1000..30000
  \/ form.output_format \notin OutputFormats \cup {""}

\* C37: a submission with bad config values is answered with a validation
\* error (400) and inserts no job
C37_BadConfigRejected ==
  [][\A c \in Slots, form \in Forms, u \in Submitters :
       (BadConfig(form) /\ SubmitJob(c, form, u))
         => (reply'.http = 400 /\ jobs' = jobs)]_vars

\* m is a multiple of 64 with no other multiple of 64 nearer to x
NearestMultipleOf64(m, x) ==
  /\ m % 64 = 0
  /\ 2 * (IF m > x THEN m - x ELSE x - m) <= 64

\* C40: the resolution stored for a submitted integer resolution is the
\* multiple of 64 nearest to it, clamped to 256..1920
C40_NearestMultiple ==
  [][\A c \in Slots, form \in Forms, u \in Submitters :
       (form.resolution.kind = "int" /\ SubmitJob(c, form, u) /\ Len(jobs') > Len(jobs))
         => \E m \in 0..(form.resolution.n + 64) :
              /\ NearestMultipleOf64(m, form.resolution.n)
              /\ jobs'[Len(jobs')].resolution =
                   (IF m < 256 THEN 256 ELSE IF m > 1920 THEN 1920 ELSE m)]_vars


\* C38: a request to a worker route (claim, video, status, result) that
\* carries no Authorization header or a key other than the worker key is
\* answered 401 or 403 and leaves every job and every post as it was
C38_WorkerKeyRequired ==
  [][\A c \in Slots, h \in Headers :
       (/\ ~h.present \/ h.token # WorkerApiKey
        /\ \/ Authorized(c, h, WorkerClaim(c))
           \/ Authorized(c, h, WorkerVideo(c, FirstJob))
           \/ Authorized(c, h, WorkerStatus(c, FirstJob, "processing"))
           \/ Authorized(c, h, ResultRequest(c, FirstJob)))
         => /\ jobs' = jobs /\ posts' = posts
            /\ reply'.op = "auth"
            /\ reply'.http = IF h.present THEN 403 ELSE 401]_vars

\* a request with a wrong key was turned away while one job waits in the
\* queue and another is claimed
C38_Witness ==
  /\ reply.op = "auth" /\ reply.http = 403
  /\ \E i \in DOMAIN jobs : jobs[i].status = "queued"
  /\ \E i \in DOMAIN jobs : jobs[i].status = "claimed"


\* C39: every stored reply has the post_id of the comment its parent_id names
C39_ReplyOnParentsPost ==
  \A i \in DOMAIN comments :
    comments[i].parent_id # NoId =>
      \A j \in CommentIdx(comments[i].parent_id) : comments[j].post_id = comments[i].post_id

====
